---- MODULE Spec2Model ----
(***************************************************************************)
(* A model of chatbot-backend/main.py: a FastAPI relay with two routes,    *)
(* GET / (health_check) and POST /chat (chat_with_ai), the latter          *)
(* forwarding the user's message to an Ollama server through one           *)
(* requests.post call.                                                     *)
(*                                                                         *)
(* Both handlers are `async def` coroutines, so they run on the single     *)
(* event loop of the process.  requests.post is a synchronous call: the    *)
(* coroutine has no suspension point between entering chat_with_ai and     *)
(* leaving it, and the loop runs nothing else meanwhile.  `running` is the *)
(* request the loop is executing.                                          *)
(*                                                                         *)
(* Strings the code builds with f-strings are sequences of tokens, so      *)
(* that "the detail contains ..." is a property of the value.              *)
(***************************************************************************)
EXTENDS Integers, Sequences, FiniteSets, TLC

\* ------------------------------------------------------------------ bounds
MaxRequests == 2        \* inbound requests the clients send in one run
TickSeconds == 30       \* granularity of the clock of the outbound call

\* ------------------------------------------------------- program constants
TIMEOUT == 60
DEFAULT_OLLAMA_URL == "http://localhost:11434"
DEFAULT_OLLAMA_MODEL == "qwen2.5"
SYSTEM_MESSAGE == "You are a helpful assistant."

\* ------------------------------------------------------------ JSON values
\* A decoded JSON value (what json.loads yields), tagged with its Python type.
JStr(s) == [type |-> "str", value |-> s]
JDict(f) == [type |-> "dict", value |-> f]
JNone == [type |-> "NoneType", value |-> "null"]

\* ------------------------------------------------- control-flow outcomes
Return(v) == [kind |-> "return", value |-> v]
Raise(e) == [kind |-> "raise", exc |-> e]

\* An exception: its class, and str(e) as tokens.
Exc(cls, text) == [cls |-> cls, status_code |-> 0, text |-> text]
\* fastapi.HTTPException(status_code, detail)
HTTPException(status_code, detail) ==
    [cls |-> "HTTPException", status_code |-> status_code, text |-> detail]

\* str(e).  starlette's HTTPException.__str__ is f"{status_code}: {detail}".
str(e) ==
    IF e.cls = "HTTPException"
    THEN <<ToString(e.status_code), ": ">> \o e.text
    ELSE e.text

\* The classes of requests.exceptions.RequestException that occur here.
RequestExceptionClasses ==
    {"ConnectionError", "Timeout", "HTTPError", "JSONDecodeError"}

\* --------------------------------------------------------- configuration
EnvNames == {"OLLAMA_URL", "OLLAMA_MODEL"}

EnvValues(name) ==
    IF name = "OLLAMA_URL" THEN {"http://ollama:11434"} ELSE {"llama3"}

\* The process environments (after load_dotenv): each variable set or unset.
Environments ==
    { e \in UNION { [S -> {"http://ollama:11434", "llama3"}] : S \in SUBSET EnvNames } :
        \A name \in DOMAIN e : e[name] \in EnvValues(name) }

\* os.getenv(key, default)
getenv(e, key, default) == IF key \in DOMAIN e THEN e[key] ELSE default

VARIABLES
    env,            \* the environment the process was started in
    OLLAMA_URL,     \* module global, line 37
    OLLAMA_MODEL,   \* module global, line 38
    reqs,           \* inbound requests received so far, with their progress
    responses,      \* responses[r]: the HTTP responses sent for request r
    running,        \* the request the event loop is executing, 0 when idle
    outbound,       \* log of the outbound POSTs issued, with their answers
    idle            \* seconds the in-flight outbound call received no byte

vars == <<env, OLLAMA_URL, OLLAMA_MODEL, reqs, responses, running, outbound, idle>>

\* ------------------------------------------------------ inbound requests
Messages == {"", "Hello"}

\* The JSON bodies clients post to /chat: {"user_message": s}, and one body
\* without the field.
ChatBodies ==
    { JDict([user_message |-> JStr(s)]) : s \in Messages }
        \cup { JDict([message |-> JStr("Hello")]) }

\* class ChatInput(BaseModel): user_message: str
ChatInput(body) ==
    /\ body.type = "dict"
    /\ "user_message" \in DOMAIN body.value
    /\ body.value["user_message"].type = "str"

\* The requests clients send.
Inbound ==
    { [route |-> "GET /", body |-> JNone] }
        \cup { [route |-> "POST /chat", body |-> b] : b \in ChatBodies }

\* --------------------------------------------------- the upstream's answers
\* What requests.post meets: no connection, or an HTTP response.  A response
\* body is its decoded JSON value, or NotJSON for a body json() cannot decode.
NotJSON == [type |-> "invalid", value |-> "<html>"]

UpstreamBodies ==
    { JDict([message |-> JDict([content |-> JStr("Hello!")])]),
      JDict([foo |-> JStr("bar")]),
      JDict([message |-> JDict([role |-> JStr("assistant")])]),
      JDict([message |-> JStr("Hello!")]),
      NotJSON }

HttpAnswer(status_code, body) ==
    [kind |-> "http", status_code |-> status_code, body |-> body]
Refused == [kind |-> "refused", status_code |-> 0, body |-> JNone]
TimedOut == [kind |-> "timeout", status_code |-> 0, body |-> JNone]
Pending == [kind |-> "pending", status_code |-> 0, body |-> JNone]

UpstreamAnswers ==
    { Refused }
        \cup { HttpAnswer(200, b) : b \in UpstreamBodies }
        \cup { HttpAnswer(201, JDict([message |-> JDict([content |-> JStr("Hello!")])])),
               HttpAnswer(404, JDict([error |-> JStr("model not found")])) }

\* ------------------------------------------------------------ call_ollama
\* Mutant of payload: an empty prompt is left out of the messages.
payload_skips_empty_prompt(prompt, system_message) ==
    [ model |-> OLLAMA_MODEL,
      messages |-> IF prompt = ""
                   THEN << [role |-> "system", content |-> system_message] >>
                   ELSE << [role |-> "system", content |-> system_message],
                           [role |-> "user", content |-> prompt] >>,
      stream |-> FALSE ]

\* Mutant of payload: the model is the literal default, not the global.
payload_default_model(prompt, system_message) ==
    [ model |-> DEFAULT_OLLAMA_MODEL,
      messages |-> << [role |-> "system", content |-> system_message],
                      [role |-> "user", content |-> prompt] >>,
      stream |-> FALSE ]

\* lines 43-50: the payload of the outbound call
payload(prompt, system_message) ==
    [ model |-> OLLAMA_MODEL,
      messages |-> << [role |-> "system", content |-> system_message],
                      [role |-> "user", content |-> prompt] >>,
      stream |-> FALSE ]

\* lines 52-56: the outbound call as issued: requests.post(url, json=, timeout=)
post(r, prompt) ==
    [ req |-> r,
      url |-> <<OLLAMA_URL, "/api/chat">>,
      json |-> payload(prompt, SYSTEM_MESSAGE),
      timeout |-> TIMEOUT,
      answer |-> Pending ]

\* requests.post returning or raising, by what the upstream did
requests_post(answer) ==
    CASE answer.kind = "refused" ->
            Raise(Exc("ConnectionError", <<"Connection refused">>))
      [] answer.kind = "timeout" ->
            Raise(Exc("Timeout", <<"Read timed out. (read timeout=", ToString(TIMEOUT), ")">>))
      [] OTHER -> Return(answer)

\* Mutant of raise_for_status: every status but 200 is an error.
raise_for_status_only_200(response) ==
    IF response.status_code # 200
    THEN Raise(Exc("HTTPError", <<ToString(response.status_code), " Error">>))
    ELSE Return(JNone)

\* response.raise_for_status(): HTTPError for a 4xx or 5xx status
raise_for_status(response) ==
    IF 400 <= response.status_code /\ response.status_code < 600
    THEN Raise(Exc("HTTPError", <<ToString(response.status_code), " Error">>))
    ELSE Return(JNone)

\* response.json()
json(response) ==
    IF response.body.type = "invalid"
    THEN Raise(Exc("JSONDecodeError", <<"Expecting value">>))
    ELSE Return(response.body)

\* obj[key] for a string key, as Python evaluates it on a decoded JSON value
getitem(obj, key) ==
    CASE obj.type = "dict" ->
            IF key \in DOMAIN obj.value
            THEN Return(obj.value[key])
            ELSE Raise(Exc("KeyError", <<"'", key, "'">>))
      [] obj.type = "str" ->
            Raise(Exc("TypeError", <<"string indices must be integers">>))
      [] OTHER ->
            Raise(Exc("TypeError", <<"'", obj.type, "' object is not subscriptable">>))

\* lines 52-60: the body of the try block, from the upstream's answer on
call_ollama_try(answer) ==
    LET response == requests_post(answer) IN
    IF response.kind = "raise" THEN response
    ELSE LET checked == raise_for_status(response.value) IN
    IF checked.kind = "raise" THEN checked
    ELSE LET result == json(response.value) IN
    IF result.kind = "raise" THEN result
    ELSE LET message == getitem(result.value, "message") IN
    IF message.kind = "raise" THEN message
    ELSE getitem(message.value, "content")

\* lines 40-65: call_ollama, with its two except clauses
call_ollama(answer) ==
    LET o == call_ollama_try(answer) IN
    IF o.kind = "raise" /\ o.exc.cls \in RequestExceptionClasses
    THEN Raise(HTTPException(503, <<"Ollama service unavailable: ">> \o str(o.exc)))
    ELSE IF o.kind = "raise" /\ o.exc.cls = "KeyError"
    THEN Raise(HTTPException(502, <<"Unexpected response format from Ollama: ">> \o str(o.exc)))
    ELSE o

\* ---------------------------------------------------------- the endpoints
Response(status_code, body) == [status_code |-> status_code, body |-> body]

\* Mutant of health_check: the defaults are reported, not the globals.
health_check_defaults ==
    Response(200, [status |-> "ok", model |-> DEFAULT_OLLAMA_MODEL,
                   ollama_url |-> DEFAULT_OLLAMA_URL])

\* lines 68-71
health_check ==
    Response(200, [status |-> "ok", model |-> OLLAMA_MODEL, ollama_url |-> OLLAMA_URL])

\* Mutant of chat_with_ai: the error text is replaced by a fixed message.
chat_with_ai_generic_detail(answer) ==
    LET o == call_ollama(answer) IN
    IF o.kind = "return"
    THEN Response(200, [bot_response |-> o.value])
    ELSE Response(500, [detail |-> <<"Internal Server Error">>])

\* Mutant of chat_with_ai: once a request has failed, later ones fail too.
chat_with_ai_remembers_failure(answer) ==
    LET o == call_ollama(answer) IN
    IF \E r \in DOMAIN responses :
            responses[r] # <<>> /\ responses[r][1].status_code = 500
    THEN Response(500, [detail |-> <<"Internal Server Error">>])
    ELSE IF o.kind = "return"
    THEN Response(200, [bot_response |-> o.value])
    ELSE Response(500, [detail |-> str(o.exc)])

\* lines 73-83: every exception call_ollama raises, the HTTPException of its
\* except clauses included, is an Exception and is caught at line 81.
chat_with_ai(answer) ==
    LET o == call_ollama(answer) IN
    IF o.kind = "return"
    THEN Response(200, [bot_response |-> o.value])
    ELSE Response(500, [detail |-> str(o.exc)])

\* FastAPI's answer to a body ChatInput rejects
validation_error == Response(422, [detail |-> <<"Field required">>])

\* ------------------------------------------------------------------ state
Requests == 1..Len(reqs)

\* The outbound call the running handler is blocked in.
InFlight ==
    /\ running # 0
    /\ outbound[Len(outbound)].answer.kind = "pending"

Init ==
    /\ env \in Environments
    /\ OLLAMA_URL = getenv(env, "OLLAMA_URL", DEFAULT_OLLAMA_URL)
    /\ OLLAMA_MODEL = getenv(env, "OLLAMA_MODEL", DEFAULT_OLLAMA_MODEL)
    /\ reqs = <<>>
    /\ responses = <<>>
    /\ running = 0
    /\ outbound = <<>>
    /\ idle = 0

config == <<env, OLLAMA_URL, OLLAMA_MODEL>>

\* A client sends a request; it waits at the socket until the loop takes it.
Receive(q) ==
    /\ Len(reqs) < MaxRequests
    /\ reqs' = Append(reqs, [route |-> q.route, body |-> q.body, st |-> "queued"])
    /\ responses' = Append(responses, <<>>)
    /\ UNCHANGED <<config, running, outbound, idle>>

\* GET /: health_check runs to completion on the loop.
HealthCheck(r) ==
    /\ running = 0
    /\ reqs[r].st = "queued"
    /\ reqs[r].route = "GET /"
    /\ responses' = [responses EXCEPT ![r] = Append(@, health_check)]
    /\ reqs' = [reqs EXCEPT ![r].st = "done"]
    /\ UNCHANGED <<config, running, outbound, idle>>

\* POST /chat with a body ChatInput rejects: the handler is not entered.
ChatRejected(r) ==
    /\ running = 0
    /\ reqs[r].st = "queued"
    /\ reqs[r].route = "POST /chat"
    /\ ~ChatInput(reqs[r].body)
    /\ responses' = [responses EXCEPT ![r] = Append(@, validation_error)]
    /\ reqs' = [reqs EXCEPT ![r].st = "done"]
    /\ UNCHANGED <<config, running, outbound, idle>>

\* POST /chat: chat_with_ai enters call_ollama, which builds the payload and
\* calls requests.post; the loop is held from here on.
ChatCall(r) ==
    /\ running = 0
    /\ reqs[r].st = "queued"
    /\ reqs[r].route = "POST /chat"
    /\ ChatInput(reqs[r].body)
    /\ running' = r
    /\ reqs' = [reqs EXCEPT ![r].st = "running"]
    /\ outbound' = Append(outbound, post(r, reqs[r].body.value["user_message"].value))
    /\ idle' = 0
    /\ UNCHANGED <<config, responses>>

\* Time passes with no byte from the upstream.
Tick ==
    /\ InFlight
    /\ idle < TIMEOUT
    /\ idle' = idle + TickSeconds
    /\ UNCHANGED <<config, reqs, responses, running, outbound>>

\* The upstream sends part of its answer: the socket's timeout (timeout=60
\* bounds each wait for bytes, not the call) starts again.
UpstreamSendsBytes ==
    /\ InFlight
    /\ 0 < idle /\ idle < TIMEOUT
    /\ idle' = 0
    /\ UNCHANGED <<config, reqs, responses, running, outbound>>

\* The upstream refuses the connection or completes an HTTP response.
UpstreamAnswer(a) ==
    /\ InFlight
    /\ idle < TIMEOUT
    /\ outbound' = [outbound EXCEPT ![Len(outbound)].answer = a]
    /\ UNCHANGED <<config, reqs, responses, running, idle>>

\* No byte for `timeout` seconds: requests.post raises Timeout.
RequestTimeout ==
    /\ InFlight
    /\ idle >= TIMEOUT
    /\ outbound' = [outbound EXCEPT ![Len(outbound)].answer = TimedOut]
    /\ UNCHANGED <<config, reqs, responses, running, idle>>

\* requests.post is over: the rest of call_ollama and chat_with_ai runs and
\* the response is sent.
ChatReturn(r) ==
    /\ running = r
    /\ ~InFlight
    /\ responses' = [responses EXCEPT ![r] = Append(@, chat_with_ai(outbound[Len(outbound)].answer))]
    /\ reqs' = [reqs EXCEPT ![r].st = "done"]
    /\ running' = 0
    /\ idle' = 0
    /\ UNCHANGED <<config, outbound>>

Next ==
    \/ \E q \in Inbound : Receive(q)
    \/ \E r \in Requests : HealthCheck(r)
    \/ \E r \in Requests : ChatRejected(r)
    \/ \E r \in Requests : ChatCall(r)
    \/ Tick
    \/ UpstreamSendsBytes
    \/ \E a \in UpstreamAnswers : UpstreamAnswer(a)
    \/ RequestTimeout
    \/ \E r \in Requests : ChatReturn(r)

Spec == Init /\ [][Next]_vars

\* The clock advances, a due timeout fires and a handler whose call is over
\* goes on; the upstream and the clients are under no obligation.
FairSpec ==
    /\ Spec
    /\ WF_vars(Tick)
    /\ WF_vars(RequestTimeout)
    /\ WF_vars(\E r \in Requests : ChatReturn(r))

\* ------------------------------------------------- vocabulary of the claims
Contains(text, token) == \E i \in DOMAIN text : text[i] = token

CallsOf(r) == { i \in DOMAIN outbound : outbound[i].req = r }

\* The upstream's answer to request r's own outbound call.
AnswerOf(r) == outbound[CHOOSE i \in CallsOf(r) : TRUE].answer

\* r is a POST /chat with a valid body (an accepted Chat invocation once the
\* loop has taken it).
ValidChat(r) == reqs[r].route = "POST /chat" /\ ChatInput(reqs[r].body)

ChatDone(r) == ValidChat(r) /\ reqs[r].st = "done"

UserMessage(r) == reqs[r].body.value["user_message"].value

Is2xx(a) == a.kind = "http" /\ 200 <= a.status_code /\ a.status_code < 300

\* Transport-level failure, or an HTTP answer with a non-2xx status.
Unavailable(a) == a.kind \in {"refused", "timeout"} \/ (a.kind = "http" /\ ~Is2xx(a))

\* A 2xx JSON object without `message`, or whose `message` object lacks `content`.
LacksMessage(a) ==
    Is2xx(a) /\ a.body.type = "dict" /\ "message" \notin DOMAIN a.body.value
LacksContent(a) ==
    /\ Is2xx(a) /\ a.body.type = "dict" /\ "message" \in DOMAIN a.body.value
    /\ a.body.value["message"].type = "dict"
    /\ "content" \notin DOMAIN a.body.value["message"].value

\* A 2xx JSON body {"message": {"content": c}} with c a string.
HasContent(a) ==
    /\ Is2xx(a) /\ a.body.type = "dict" /\ "message" \in DOMAIN a.body.value
    /\ a.body.value["message"].type = "dict"
    /\ "content" \in DOMAIN a.body.value["message"].value
    /\ a.body.value["message"].value["content"].type = "str"
ContentOf(a) == a.body.value["message"].value["content"]

\* The try block fails with an exception neither except clause names.
OtherFailure(a) ==
    /\ call_ollama_try(a).kind = "raise"
    /\ call_ollama_try(a).exc.cls \notin RequestExceptionClasses \cup {"KeyError"}

ConfiguredModel ==
    IF "OLLAMA_MODEL" \in DOMAIN env THEN env["OLLAMA_MODEL"] ELSE "qwen2.5"
ConfiguredUrl ==
    IF "OLLAMA_URL" \in DOMAIN env THEN env["OLLAMA_URL"] ELSE "http://localhost:11434"

\* ------------------------------------------------------------------ claims

\* C1: a Chat whose upstream call fails at transport level (refused, timeout)
\* or is answered with a non-2xx status is answered with status 503 and a
\* detail containing "unavailable".
C1_Unavailable503 ==
    \A r \in Requests :
        (ChatDone(r) /\ Unavailable(AnswerOf(r))) =>
            /\ responses[r][1].status_code = 503
            /\ Contains(responses[r][1].body.detail, "Ollama service unavailable: ")

\* C2: a Chat whose upstream answers 2xx with a JSON object lacking `message`,
\* or whose `message` object lacks `content`, is answered with status 502 and
\* a detail naming the missing field.
C2_Malformed502 ==
    \A r \in Requests :
        /\ (ChatDone(r) /\ LacksMessage(AnswerOf(r))) =>
            /\ responses[r][1].status_code = 502
            /\ Contains(responses[r][1].body.detail, "message")
        /\ (ChatDone(r) /\ LacksContent(AnswerOf(r))) =>
            /\ responses[r][1].status_code = 502
            /\ Contains(responses[r][1].body.detail, "content")

\* C3: a Chat whose upstream answers 2xx with {"message": {"content": c}}, c a
\* string, is answered with status 200 and the body {"bot_response": c}, c
\* unchanged.
C3_SuccessRelaysContent ==
    \A r \in Requests :
        (ChatDone(r) /\ HasContent(AnswerOf(r))) =>
            responses[r] = << [status_code |-> 200,
                               body |-> [bot_response |-> ContentOf(AnswerOf(r))]] >>

C3_Witness ==
    \E r \in Requests :
        /\ ChatDone(r) /\ HasContent(AnswerOf(r))
        /\ AnswerOf(r).status_code = 201
        /\ ContentOf(AnswerOf(r)) = JStr("Hello!")

\* C4: every accepted Chat invocation, whatever its outcome, has issued
\* exactly one outbound POST, to <OLLAMA_URL>/api/chat, whose payload has
\* messages = [system "You are a helpful assistant.", user s] with s the
\* user_message exactly (the empty string included) and stream = false; and
\* no outbound call belongs to anything but an accepted Chat.
C4_ExactlyOneOutboundCall ==
    /\ \A r \in Requests :
        (ValidChat(r) /\ reqs[r].st \in {"running", "done"}) =>
            /\ Cardinality(CallsOf(r)) = 1
            /\ \A i \in CallsOf(r) :
                /\ outbound[i].url = <<ConfiguredUrl, "/api/chat">>
                /\ outbound[i].json.messages =
                        << [role |-> "system", content |-> "You are a helpful assistant."],
                           [role |-> "user", content |-> UserMessage(r)] >>
                /\ outbound[i].json.stream = FALSE
    /\ \A i \in DOMAIN outbound :
        /\ outbound[i].req \in Requests
        /\ ValidChat(outbound[i].req)
        /\ reqs[outbound[i].req].st \in {"running", "done"}

C4_Witness ==
    \E r \in Requests :
        /\ ChatDone(r) /\ UserMessage(r) = ""
        /\ responses[r][1].status_code = 500
        /\ Cardinality(CallsOf(r)) = 1

\* C5: a Chat whose call fails with an exception that is neither a
\* RequestException nor a KeyError (the upstream's `message` is not an
\* object, say) is answered with status 500 and the text of that error as
\* detail.
C5_OtherFailure500 ==
    \A r \in Requests :
        (ChatDone(r) /\ OtherFailure(AnswerOf(r))) =>
            responses[r] = << [status_code |-> 500,
                               body |-> [detail |-> call_ollama_try(AnswerOf(r)).exc.text]] >>

C5_Witness ==
    \E r \in Requests :
        /\ ChatDone(r) /\ OtherFailure(AnswerOf(r))
        /\ AnswerOf(r).body = JDict([message |-> JStr("Hello!")])
        /\ Contains(responses[r][1].body.detail, "string indices must be integers")

\* C6: the response of a Chat depends only on its own user_message and the
\* answer to its own outbound call: two Chats with the same message and the
\* same upstream answer get the same response, a Chat whose upstream call
\* succeeds with content c gets 200 {"bot_response": c} whatever happened to
\* earlier requests, and a finished request never keeps the loop.
C6_RequestsIndependent ==
    /\ \A r1, r2 \in Requests :
        (/\ ChatDone(r1) /\ ChatDone(r2)
         /\ UserMessage(r1) = UserMessage(r2)
         /\ AnswerOf(r1) = AnswerOf(r2)) => responses[r1] = responses[r2]
    /\ \A r \in Requests :
        (ChatDone(r) /\ HasContent(AnswerOf(r))) =>
            /\ Len(responses[r]) = 1
            /\ responses[r][1].status_code = 200
            /\ responses[r][1].body.bot_response = ContentOf(AnswerOf(r))
    /\ \A r \in Requests : reqs[r].st = "done" => running # r

\* An earlier Chat ended in 500 and a later one, whose call succeeded, in 200.
C6_Witness ==
    \E i, j \in DOMAIN outbound :
        /\ i < j
        /\ ChatDone(outbound[i].req) /\ ChatDone(outbound[j].req)
        /\ responses[outbound[i].req][1].status_code = 500
        /\ HasContent(outbound[j].answer)
        /\ responses[outbound[j].req][1].status_code = 200

\* C7: while a Chat invocation waits for its upstream response, the service
\* can take any other request that has arrived (a HealthCheck, another Chat).
C7_NonBlocking ==
    \A r, q \in Requests :
        (running = r /\ InFlight /\ reqs[q].st = "queued") =>
            ENABLED (HealthCheck(q) \/ ChatRejected(q) \/ ChatCall(q))

\* C8: HealthCheck is idempotent and side-effect-free: every HealthCheck
\* answers {status: "ok", model, ollama_url} with the values configured at
\* process start, issues no outbound call, and its step changes neither the
\* configuration, the outbound calls, the loop, nor any other request.
C8_HealthCheckPure ==
    /\ [](\A r \in Requests :
            /\ (reqs[r].route = "GET /" /\ reqs[r].st = "done") =>
                    responses[r] = << [status_code |-> 200,
                                       body |-> [status |-> "ok",
                                                 model |-> ConfiguredModel,
                                                 ollama_url |-> ConfiguredUrl]] >>
            /\ reqs[r].route = "GET /" => CallsOf(r) = {})
    /\ [][\A r \in Requests :
            HealthCheck(r) =>
                /\ <<env, OLLAMA_URL, OLLAMA_MODEL, outbound, running, idle>>' =
                        <<env, OLLAMA_URL, OLLAMA_MODEL, outbound, running, idle>>
                /\ \A q \in Requests \ {r} :
                        reqs'[q] = reqs[q] /\ responses'[q] = responses[q]]_vars

\* A HealthCheck and a failed Chat have both been served, under a non-default
\* configuration.
C8_Witness ==
    /\ "OLLAMA_URL" \in DOMAIN env
    /\ \E r, q \in Requests :
        /\ reqs[r].route = "GET /" /\ reqs[r].st = "done"
        /\ ChatDone(q) /\ responses[q][1].status_code = 500

\* C9: the model is read once at process start (default "qwen2.5" when
\* OLLAMA_MODEL is unset): every HealthCheck reports it and every outbound
\* payload carries it, so the two always agree.
C9_ModelEverywhere ==
    /\ \A r \in Requests :
        (reqs[r].route = "GET /" /\ reqs[r].st = "done") =>
            responses[r][1].body.model = ConfiguredModel
    /\ \A i \in DOMAIN outbound : outbound[i].json.model = ConfiguredModel

C9_Witness ==
    /\ "OLLAMA_MODEL" \in DOMAIN env /\ env["OLLAMA_MODEL"] = "llama3"
    /\ \E r \in Requests : reqs[r].route = "GET /" /\ reqs[r].st = "done"
    /\ outbound # <<>>

\* C10: every accepted Chat invocation eventually returns a response: the
\* outbound call ends when the upstream responds or after 60 seconds.
C10_EventuallyResponds ==
    \A r \in 1..MaxRequests :
        (r \in Requests /\ reqs[r].st = "running") ~> (r \in Requests /\ reqs[r].st = "done")

====
